---- MODULE Spec2Model ----
(***************************************************************************)
(* Model of extractor/gta5_extractor.py: the command-line tool that        *)
(* extracts the GTA V radio archives, converts their .awc files and lays   *)
(* them out for GTRadio.  The state is the part of the file system the     *)
(* tool touches plus the position of main(); the external executables      *)
(* (rpf-cli, vgmstream-cli) and the Steam records are the environment.     *)
(***************************************************************************)
EXTENDS Integers, Sequences, FiniteSets, TLC

(* ------------------------------ bounds --------------------------------- *)
\* number of entries of STATION_MAP that are modelled
NumStations == 2
\* largest number of files in one station folder / archive
MaxFiles == 2
\* largest number of files the walk of update/x64/dlcpacks yields
MaxDlcFiles == 2
\* largest number of entries of a user supplied --input directory
MaxInputEntries == 2

(* ------------------------------ strings -------------------------------- *)
\* A string is a sequence of one-character strings.
LowerCase == <<"a", "c", "f", "p", "r", "s", "t", "v", "w", "x">>
UpperCase == <<"A", "C", "F", "P", "R", "S", "T", "V", "W", "X">>

UpperChar(c) ==
    IF \E i \in 1..Len(LowerCase) : LowerCase[i] = c
    THEN UpperCase[CHOOSE i \in 1..Len(LowerCase) : LowerCase[i] = c]
    ELSE c

LowerChar(c) ==
    IF \E i \in 1..Len(UpperCase) : UpperCase[i] = c
    THEN LowerCase[CHOOSE i \in 1..Len(UpperCase) : UpperCase[i] = c]
    ELSE c

\* str.upper() and str.lower()
Upper(s) == [i \in 1..Len(s) |-> UpperChar(s[i])]
Lower(s) == [i \in 1..Len(s) |-> LowerChar(s[i])]

\* str.startswith(p) and str.endswith(p)
StartsWith(s, p) == Len(s) >= Len(p) /\ SubSeq(s, 1, Len(p)) = p
EndsWith(s, p) == Len(s) >= Len(p) /\ SubSeq(s, Len(s) - Len(p) + 1, Len(s)) = p

\* str.replace(old, new): every non-overlapping occurrence, left to right
RECURSIVE Replace(_, _, _)
Replace(s, old, new) ==
    IF Len(s) < Len(old) THEN s
    ELSE IF SubSeq(s, 1, Len(old)) = old
         THEN new \o Replace(SubSeq(s, Len(old) + 1, Len(s)), old, new)
         ELSE <<s[1]>> \o Replace(SubSeq(s, 2, Len(s)), old, new)

DotAwc == <<".", "a", "w", "c">>
DotAWC == <<".", "A", "W", "C">>
DotWav == <<".", "w", "a", "v">>
DotRpf == <<".", "r", "p", "f">>
DotRPF == <<".", "R", "P", "F">>

(* ---------------------------- the mapping ------------------------------ *)
Digits == <<"1", "2", "3", "4", "5">>

\* STATION_MAP in its iteration order: archive identifier -> display name.
\* "R<d>" stands for "RADIO_<dd>_<NAME>", "S<d>" for the display name.
STATION_MAP ==
    [i \in 1..NumStations |->
        [rpf_name |-> <<"R", Digits[i]>>, station_name |-> <<"S", Digits[i]>>]]

Stations == 1..NumStations

\* the prefix "RADIO_" the DLC scan tests for
RadioPrefix == <<"R">>

\* rpf_name_no_ext in STATION_MAP
InStationMap(name) == \E i \in Stations : STATION_MAP[i].rpf_name = name

StationOf(name) == CHOOSE i \in Stations : STATION_MAP[i].rpf_name = name

None == "None"

(* --------------------------- the environment --------------------------- *)
\* how an external executable can end: exit status 0, a non-zero exit
\* status (CalledProcessError), or no process at all (OSError)
ProcOutcomes == {"ok", "nonzero", "nolaunch"}

\* what rpf-cli leaves behind: the destination directory after a
\* successful run, possibly a partial one after a failed run, nothing when
\* it could not be started
ExtractResults ==
    { [outcome |-> "ok", dir |-> TRUE],
      [outcome |-> "nonzero", dir |-> TRUE],
      [outcome |-> "nonzero", dir |-> FALSE],
      [outcome |-> "nolaunch", dir |-> FALSE] }

\* file names found in station folders
FileNames ==
    { <<"t">> \o DotAwc,
      <<"t">> \o DotAWC,
      <<"t", ".", "A", "w", "c">>,
      <<"t", ".", "t", "x", "t">> }

FileSets == { fs \in SUBSET FileNames : Cardinality(fs) <= MaxFiles }

\* directory entries a user supplied input directory can hold for station i
EntriesFor(i) ==
    LET id == STATION_MAP[i].rpf_name
    IN  { [name |-> Lower(id), isDir |-> TRUE],
          [name |-> id, isDir |-> FALSE],
          [name |-> id \o DotRpf, isDir |-> TRUE] }

EntryNames == UNION { EntriesFor(i) : i \in Stations }

Listings == { es \in SUBSET EntryNames : Cardinality(es) <= MaxInputEntries }

\* file names the walk of the dlcpacks root can yield
DlcFileNames ==
    UNION { { STATION_MAP[i].rpf_name \o DotRpf,
              Lower(STATION_MAP[i].rpf_name) \o DotRPF } : i \in Stations }
    \cup { <<"R", "9">> \o DotRpf, <<"x", "1">> \o DotRpf }

\* command lines; --rpf-cli is read on the auto-detect path only
ArgSets ==
    { a \in [input : {None, "in"}, auto_detect : BOOLEAN, rpf_cli : {None, "rpf-cli"}] :
        a.input # None => a.rpf_cli = None }

(* ------------------------- functions of the code ----------------------- *)
Gen5Info == "generation5"

\* create_station_info without its "if not info_path.exists()"
CreateStationInfoOverwrite(info) ==
    [content |-> Gen5Info, wrote |-> TRUE]

\* create_station_info: the content of stationGroupInfo.json afterwards,
\* and whether the file was written
CreateStationInfo(info) ==
    IF info = "absent"
    THEN [content |-> Gen5Info, wrote |-> TRUE]
    ELSE [content |-> info, wrote |-> FALSE]

\* the choice of main without its final else branch
ResolveBranchNoAbort(a) ==
    IF a.input # None THEN "input" ELSE "auto"

\* main: which input source the arguments select
ResolveBranch(a) ==
    IF a.input # None THEN "input"
    ELSE IF a.auto_detect THEN "auto"
    ELSE "none"

\* extract_rpf: does an exception leave the function
ExtractRpfRaises(outcome) == FALSE

\* extract_rpf: the value returned
ExtractRpfReturn(outcome) == outcome = "ok"

\* convert_awc: does an exception leave the function
ConvertAwcRaises(outcome) == outcome = "nolaunch"

\* convert_awc: the value returned
ConvertAwcReturn(outcome) == outcome = "ok"

\* the test of the DLC scan on a file name
IsDlcRadio(file) ==
    StartsWith(Upper(file), RadioPrefix) /\ EndsWith(Lower(file), DotRpf)

\* rpf_name_no_ext = file[:-4].upper()
DlcNameNoExt(file) == Upper(SubSeq(file, 1, Len(file) - 4))

\* the DLC scan without its "if not extract_to.exists()"
DlcGuardAlways(dirs, i) == TRUE

\* "if not extract_to.exists()": is the DLC archive of station i extracted
DlcGuard(dirs, i) == i \notin dirs

\* the test of process_station_folder on a file name
IsAwc(file) == EndsWith(Lower(file), DotAwc)

\* output_filename
OutputFilename(file) == Replace(Replace(file, DotAwc, DotWav), DotAWC, DotWav)

\* the two loops of main in the other order
FindStationFolderExtFirst(entries, i) ==
    LET id == STATION_MAP[i].rpf_name
        exact == { e \in entries : e.isDir /\ Upper(e.name) = Upper(id) }
        withExt == { e \in entries : e.isDir /\ Upper(e.name) = Upper(id \o DotRPF) }
    IN  IF withExt # {} THEN withExt ELSE exact

\* the two loops of main over input_dir.iterdir() for station i: the
\* entries one of which is processed
FindStationFolder(entries, i) ==
    LET id == STATION_MAP[i].rpf_name
        exact == { e \in entries : e.isDir /\ Upper(e.name) = Upper(id) }
        withExt == { e \in entries : e.isDir /\ Upper(e.name) = Upper(id \o DotRPF) }
    IN  IF exact # {} THEN exact ELSE withExt

\* a Cleanup that removes input_dir
CleanupTargetInput(tempVar, inputVar, tempExists) == inputVar

\* "if temp_extract_dir and temp_extract_dir.exists()": what Cleanup removes
CleanupTarget(tempVar, inputVar, tempExists) ==
    IF tempVar # None /\ tempExists THEN tempVar ELSE None

(* ------------------------------- state --------------------------------- *)
VARIABLES
    pc,                \* position of main(), "idle" before the first run
    args,              \* the parsed command line
    temp_extract_dir,  \* the local of main: None or "temp"
    idx,               \* the station the current loop is at
    dlcWalked,         \* files the walk of the dlcpacks root has yielded
    curFiles,          \* files of the station folder being walked
    pending,           \* those the walk has not yet yielded
    handed,            \* (input, output) pairs handed to convert_awc for it
    outDir,            \* does <output>/Grand Theft Auto V exist
    infoFile,          \* content of stationGroupInfo.json, or "absent"
    stationDirs,       \* stations whose <display name>/ and Songs/ exist
    temp,              \* temp_gta5_extraction: does it exist, its folders
    userDir,           \* the directory --input names: existence, entries
    abortReason,       \* why main returned early, history
    calls,             \* which collaborators this run has invoked, history
    infoWrites,        \* how often stationGroupInfo.json was written, history
    extractOK,         \* stations whose archive extract_rpf extracted, history
    extractFailed,     \* has an extract_rpf call of this run failed, history
    dlcSeen,           \* DLC archive files met per station, history
    dlcCalls,          \* extract_rpf calls of the DLC scan per station, history
    dlcNoDir,          \* those that left no destination directory, history
    baseLeft,          \* stations whose base-game extraction left a directory
    convFailed,        \* has a convert_awc call of this run failed, history
    expected,          \* stations with a folder in the input root, history
    doneStations,      \* stations whose folder was walked to its end, history
    processed          \* per station the entries handed to
                       \* process_station_folder, history

locals == <<pc, args, temp_extract_dir, idx, dlcWalked, curFiles, pending, handed>>
files == <<outDir, infoFile, stationDirs, temp, userDir>>
extractHist == <<extractOK, extractFailed, dlcSeen, dlcCalls, dlcNoDir, baseLeft>>
organizeHist == <<convFailed, expected, doneStations, processed>>
vars == <<locals, files, abortReason, calls, infoWrites, extractHist, organizeHist>>

NoCalls == [locator |-> FALSE, extractor |-> FALSE, transcoder |-> FALSE]
Zeros == [i \in Stations |-> 0]
NoDir == [exists |-> FALSE, entries |-> {}]
NoTemp == [exists |-> FALSE, dirs |-> {}]

UserDirs == {NoDir} \cup { [exists |-> TRUE, entries |-> es] : es \in Listings }

\* input_dir of main
InputDir ==
    IF args.input # None THEN "user"
    ELSE temp_extract_dir

\* input_dir.exists()
InputExists ==
    CASE InputDir = "user" -> userDir.exists
      [] InputDir = "temp" -> temp.exists
      [] OTHER -> FALSE

\* input_dir.iterdir(): extract_rpf names a folder after the identifier
InputEntries ==
    IF InputDir = "user" THEN userDir.entries
    ELSE { [name |-> STATION_MAP[i].rpf_name, isDir |-> TRUE] : i \in temp.dirs }

RunEnded == pc \in {"done", "aborted", "crashed"}

Init ==
    /\ pc = "idle"
    /\ args = [input |-> None, auto_detect |-> FALSE, rpf_cli |-> None]
    /\ temp_extract_dir = None
    /\ idx = 0
    /\ dlcWalked = 0
    /\ curFiles = {}
    /\ pending = {}
    /\ handed = {}
    /\ outDir \in BOOLEAN
    /\ infoFile \in (IF outDir THEN {"absent", "custom"} ELSE {"absent"})
    /\ stationDirs = {}
    /\ temp = NoTemp
    /\ userDir = NoDir
    /\ abortReason = None
    /\ calls = NoCalls
    /\ infoWrites = 0
    /\ extractOK = {}
    /\ extractFailed = FALSE
    /\ dlcSeen = Zeros
    /\ dlcCalls = Zeros
    /\ dlcNoDir = Zeros
    /\ baseLeft = {}
    /\ convFailed = FALSE
    /\ expected = {}
    /\ doneStations = {}
    /\ processed = [i \in Stations |-> {}]

(* ------------------------------ actions -------------------------------- *)
\* main, lines 159-171: parse the arguments, create the group directory and
\* the group-metadata file
Start ==
    /\ pc = "idle"
    /\ \E a \in ArgSets, ud \in UserDirs :
        /\ args' = a
        /\ userDir' = IF a.input = None THEN NoDir ELSE ud
    /\ outDir' = TRUE
    /\ LET r == CreateStationInfo(infoFile)
       IN  /\ infoFile' = r.content
           /\ infoWrites' = infoWrites + (IF r.wrote THEN 1 ELSE 0)
    /\ temp_extract_dir' = None
    /\ idx' = 0
    /\ dlcWalked' = 0
    /\ curFiles' = {}
    /\ pending' = {}
    /\ handed' = {}
    /\ abortReason' = None
    /\ calls' = NoCalls
    /\ extractOK' = {}
    /\ extractFailed' = FALSE
    /\ dlcSeen' = Zeros
    /\ dlcCalls' = Zeros
    /\ dlcNoDir' = Zeros
    /\ baseLeft' = {}
    /\ convFailed' = FALSE
    /\ expected' = {}
    /\ doneStations' = {}
    /\ processed' = [i \in Stations |-> {}]
    /\ pc' = "resolve"
    /\ UNCHANGED <<stationDirs, temp>>

\* main, lines 173-175 and 233-235: choose the input source
ResolveInput ==
    /\ pc = "resolve"
    /\ LET b == ResolveBranch(args)
       IN  /\ pc' = CASE b = "input" -> "check"
                      [] b = "auto" -> "locate"
                      [] OTHER -> "aborted"
           /\ abortReason' = IF b \in {"input", "auto"} THEN None ELSE "no_source"
    /\ UNCHANGED <<args, temp_extract_dir, idx, dlcWalked, curFiles, pending, handed,
                   files, calls, infoWrites, extractHist, organizeHist>>

\* main, lines 176-193 and 227-232: locate the installation, create a fresh
\* temporary directory
Locate ==
    /\ pc = "locate"
    /\ calls' = [calls EXCEPT !.locator = TRUE]
    /\ \E steam \in BOOLEAN, gta5 \in BOOLEAN :
        IF ~steam \/ ~gta5
        THEN /\ pc' = "aborted"
             /\ abortReason' = "no_install"
             /\ UNCHANGED <<temp_extract_dir, temp, idx>>
        ELSE IF args.rpf_cli = None
        THEN /\ pc' = "aborted"
             /\ abortReason' = "no_rpf_cli"
             /\ UNCHANGED <<temp_extract_dir, temp, idx>>
        ELSE /\ temp_extract_dir' = "temp"
             /\ temp' = [exists |-> TRUE, dirs |-> {}]
             /\ idx' = 1
             /\ pc' = "base"
             /\ UNCHANGED abortReason
    /\ UNCHANGED <<args, dlcWalked, curFiles, pending, handed, outDir, infoFile,
                   stationDirs, userDir, infoWrites, extractHist, organizeHist>>

\* one call extract_rpf(rpf_cli_path, rpf_file, temp_extract_dir / name of i)
\* whose process ends as r says; next is where main goes on afterwards
ExtractCall(i, r, next) ==
    /\ calls' = [calls EXCEPT !.extractor = TRUE]
    /\ temp' = IF r.dir THEN [temp EXCEPT !.dirs = @ \cup {i}] ELSE temp
    /\ extractOK' = IF ExtractRpfReturn(r.outcome) THEN extractOK \cup {i} ELSE extractOK
    /\ extractFailed' = (extractFailed \/ ~ExtractRpfReturn(r.outcome))
    /\ pc' = IF ExtractRpfRaises(r.outcome) THEN "crashed" ELSE next

\* main, lines 201-208: one turn of the loop over the base-game archives
BaseStep ==
    /\ pc = "base"
    /\ idx <= NumStations
    /\ LET next == IF idx = NumStations THEN "dlc" ELSE "base"
       IN  \E present \in BOOLEAN :
            IF present
            THEN \E r \in ExtractResults :
                    /\ ExtractCall(idx, r, next)
                    /\ baseLeft' = IF r.dir THEN baseLeft \cup {idx} ELSE baseLeft
            ELSE /\ pc' = next
                 /\ UNCHANGED <<calls, temp, extractOK, extractFailed, baseLeft>>
    /\ idx' = idx + 1
    /\ UNCHANGED <<args, temp_extract_dir, dlcWalked, curFiles, pending, handed,
                   outDir, infoFile, stationDirs, userDir, abortReason, infoWrites,
                   dlcSeen, dlcCalls, dlcNoDir, organizeHist>>

\* main, lines 213-224: one file of the walk of the dlcpacks root
DlcStep ==
    /\ pc = "dlc"
    /\ dlcWalked < MaxDlcFiles
    /\ dlcWalked' = dlcWalked + 1
    /\ \E file \in DlcFileNames :
        IF IsDlcRadio(file) /\ InStationMap(DlcNameNoExt(file))
        THEN LET i == StationOf(DlcNameNoExt(file))
             IN  /\ dlcSeen' = [dlcSeen EXCEPT ![i] = @ + 1]
                 /\ IF DlcGuard(temp.dirs, i)
                    THEN \E r \in ExtractResults :
                            /\ ExtractCall(i, r, "dlc")
                            /\ dlcCalls' = [dlcCalls EXCEPT ![i] = @ + 1]
                            /\ dlcNoDir' = [dlcNoDir EXCEPT ![i] =
                                               IF r.dir THEN @ ELSE @ + 1]
                    ELSE UNCHANGED <<pc, calls, temp, extractOK, extractFailed,
                                     dlcCalls, dlcNoDir>>
        ELSE UNCHANGED <<pc, calls, temp, extractOK, extractFailed,
                         dlcSeen, dlcCalls, dlcNoDir>>
    /\ UNCHANGED <<args, temp_extract_dir, idx, curFiles, pending, handed,
                   outDir, infoFile, stationDirs, userDir, abortReason, infoWrites,
                   baseLeft, organizeHist>>

\* main, line 226: the walk is over, input_dir = temp_extract_dir
DlcEnd ==
    /\ pc = "dlc"
    /\ pc' = "check"
    /\ dlcWalked' = 0
    /\ dlcSeen' = Zeros
    /\ dlcCalls' = Zeros
    /\ dlcNoDir' = Zeros
    /\ baseLeft' = {}
    /\ UNCHANGED <<args, temp_extract_dir, idx, curFiles, pending, handed, files,
                   abortReason, calls, infoWrites, extractOK, extractFailed,
                   organizeHist>>

\* main, lines 237-239: give up without an input directory
CheckInput ==
    /\ pc = "check"
    /\ IF InputDir # None /\ InputExists
       THEN /\ pc' = "organize"
            /\ idx' = 1
            /\ expected' = { i \in Stations : FindStationFolder(InputEntries, i) # {} }
            /\ UNCHANGED abortReason
       ELSE /\ pc' = "aborted"
            /\ abortReason' = "input_missing"
            /\ UNCHANGED <<idx, expected>>
    /\ UNCHANGED <<args, temp_extract_dir, dlcWalked, curFiles, pending, handed,
                   files, calls, infoWrites, extractHist, convFailed, doneStations,
                   processed>>

\* main, lines 242-257, and process_station_folder, lines 141-147: find the
\* folder of station idx and create its output directories
OrganizeStation ==
    /\ pc = "organize"
    /\ idx <= NumStations
    /\ LET found == FindStationFolder(InputEntries, idx)
       IN  IF found = {}
           THEN /\ idx' = idx + 1
                /\ UNCHANGED <<pc, curFiles, pending, stationDirs, processed>>
           ELSE \E item \in found, fs \in FileSets :
                /\ processed' = [processed EXCEPT ![idx] = @ \cup {item}]
                /\ stationDirs' = stationDirs \cup {idx}
                /\ curFiles' = fs
                /\ pending' = fs
                /\ pc' = "walk"
                /\ UNCHANGED idx
    /\ UNCHANGED <<args, temp_extract_dir, dlcWalked, handed, outDir, infoFile, temp,
                   userDir, abortReason, calls, infoWrites, extractHist, convFailed,
                   expected, doneStations>>

\* process_station_folder, lines 149-156: one file of the walk
WalkStep ==
    /\ pc = "walk"
    /\ \E file \in pending :
        /\ pending' = pending \ {file}
        /\ IF IsAwc(file)
           THEN \E o \in ProcOutcomes :
                /\ calls' = [calls EXCEPT !.transcoder = TRUE]
                /\ handed' = handed \cup
                       {[station |-> idx, src |-> file, dst |-> OutputFilename(file)]}
                /\ convFailed' = (convFailed \/ ~ConvertAwcReturn(o))
                /\ pc' = IF ConvertAwcRaises(o) THEN "crashed" ELSE "walk"
           ELSE UNCHANGED <<pc, calls, handed, convFailed>>
    /\ UNCHANGED <<args, temp_extract_dir, idx, dlcWalked, curFiles, files,
                   abortReason, infoWrites, extractHist, expected, doneStations,
                   processed>>

\* the walk of the station folder is over, main goes to the next station
WalkEnd ==
    /\ pc = "walk"
    /\ pending = {}
    /\ doneStations' = doneStations \cup {idx}
    /\ idx' = idx + 1
    /\ curFiles' = {}
    /\ handed' = {}
    /\ pc' = "organize"
    /\ UNCHANGED <<args, temp_extract_dir, dlcWalked, pending, files, abortReason,
                   calls, infoWrites, extractHist, convFailed, expected, processed>>

\* main, lines 259-266: remove the temporary directory, done
Cleanup ==
    /\ pc = "organize"
    /\ idx > NumStations
    /\ LET target == CleanupTarget(temp_extract_dir, InputDir, temp.exists)
       IN  /\ temp' = IF target = "temp" THEN NoTemp ELSE temp
           /\ userDir' = IF target = "user" THEN NoDir ELSE userDir
    /\ pc' = "done"
    /\ UNCHANGED <<args, temp_extract_dir, idx, dlcWalked, curFiles, pending, handed,
                   outDir, infoFile, stationDirs, abortReason, calls, infoWrites,
                   extractHist, organizeHist>>

\* the process exits: the locals of main are gone, the files stay
Exit ==
    /\ RunEnded
    /\ pc' = "idle"
    /\ args' = [input |-> None, auto_detect |-> FALSE, rpf_cli |-> None]
    /\ temp_extract_dir' = None
    /\ idx' = 0
    /\ dlcWalked' = 0
    /\ curFiles' = {}
    /\ pending' = {}
    /\ handed' = {}
    /\ userDir' = NoDir
    /\ abortReason' = None
    /\ calls' = NoCalls
    /\ extractOK' = {}
    /\ extractFailed' = FALSE
    /\ dlcSeen' = Zeros
    /\ dlcCalls' = Zeros
    /\ dlcNoDir' = Zeros
    /\ baseLeft' = {}
    /\ convFailed' = FALSE
    /\ expected' = {}
    /\ doneStations' = {}
    /\ processed' = [i \in Stations |-> {}]
    /\ UNCHANGED <<outDir, infoFile, stationDirs, temp, infoWrites>>

Next ==
    \/ Start
    \/ Exit
    \/ ResolveInput
    \/ Locate
    \/ BaseStep
    \/ DlcStep
    \/ DlcEnd
    \/ CheckInput
    \/ OrganizeStation
    \/ WalkStep
    \/ WalkEnd
    \/ Cleanup

Spec == Init /\ [][Next]_vars

(* ---------------------------- properties ------------------------------- *)
\* the reasons for which the documentation lets a run end early: no usable
\* input source, --auto-detect without --rpf-cli, no installation found
FatalReasons == {"no_source", "input_missing", "no_rpf_cli", "no_install"}

\* C1: on the auto-detect path, once main has created temp_gta5_extraction,
\* the directory does not exist when the run has ended, however it ended.
C1_TempDirRemovedAtEnd ==
    (RunEnded /\ temp_extract_dir # None) => ~temp.exists

\* C2: a conversion that failed does not stop the organize phase: when the
\* run has ended, every .awc file of the folder being walked was handed to
\* convert_awc and every station with a folder in the input root was walked.
C2_FailedConversionIsolated ==
    (RunEnded /\ convFailed) =>
        /\ \A f \in curFiles :
              EndsWith(Lower(f), DotAwc) => \E h \in handed : h.src = f
        /\ expected \subseteq doneStations

\* C3: after a failed extract_rpf call the run still reaches its end through
\* the organize phase, and every station whose archive was extracted has its
\* folder walked by process_station_folder.
C3_FailedExtractionIsolated ==
    (RunEnded /\ extractFailed) =>
        /\ pc = "done"
        /\ extractOK \subseteq doneStations

\* C4: a run ends early only for one of the fatal reasons; every other run
\* goes through the organize loop for all stations and reaches "done".
C4_OnlyFatalEndsEarly ==
    RunEnded =>
        \/ pc = "aborted" /\ abortReason \in FatalReasons
        \/ pc = "done" /\ idx > NumStations

\* C5 as claimed: during the DLC scan extract_rpf is called exactly once for
\* an identifier met in DLC archive files, whatever the first call left
\* behind, and never for one whose base-game extraction left its folder.
C5_ExactlyOncePerIdentifier ==
    pc = "dlc" =>
        \A i \in Stations :
            /\ i \in baseLeft => dlcCalls[i] = 0
            /\ (i \notin baseLeft /\ dlcSeen[i] >= 1) => dlcCalls[i] = 1

\* C5 as amended: during the DLC scan extract_rpf is called for an
\* identifier once for each matching file met while its destination
\* directory does not exist: never if the base-game extraction left the
\* directory, at most once with the directory left behind, and otherwise
\* once for every matching file.
C5_OncePerMissingDirectory ==
    pc = "dlc" =>
        \A i \in Stations :
            /\ i \in baseLeft => dlcCalls[i] = 0
            /\ i \notin baseLeft =>
                  dlcCalls[i] = dlcNoDir[i] + (IF i \in temp.dirs THEN 1 ELSE 0)
            /\ i \notin temp.dirs => dlcCalls[i] = dlcSeen[i]
            /\ (i \notin baseLeft /\ dlcSeen[i] >= 1) => dlcCalls[i] >= 1

\* several DLC files of one identifier were met and extract_rpf was called
\* once, leaving the directory
C5_Witness ==
    /\ pc = "dlc"
    /\ \E i \in Stations :
          dlcSeen[i] >= 2 /\ dlcCalls[i] = 1 /\ dlcNoDir[i] = 0 /\ i \notin baseLeft

\* the name with its last four characters replaced by ".wav"
WavName(f) == SubSeq(f, 1, Len(f) - 4) \o DotWav

\* C6: every file handed to the transcoder ends in ".awc" in some spelling
\* of upper and lower case, and its output is the name with only that final
\* extension replaced by ".wav".
C6_OutputNameIsWavName ==
    \A h \in handed :
        /\ Len(h.src) >= 4
        /\ Lower(SubSeq(h.src, Len(h.src) - 3, Len(h.src))) = DotAwc
        /\ h.dst = WavName(h.src)

\* C7: stationGroupInfo.json is written at most once, only when absent and
\* only by the first step of a run; once present its content never changes.
C7_InfoWrittenOnce ==
    [][ /\ infoFile # "absent" => infoFile' = infoFile
        /\ infoFile' # infoFile => (pc = "idle" /\ pc' = "resolve")
        /\ infoWrites' # infoWrites => (infoFile = "absent" /\ infoWrites' = 1)
      ]_vars

\* a run that was started with the file present, written by an earlier run
\* that organized a station, has ended
C7_Witness ==
    /\ pc = "done"
    /\ infoWrites = 1
    /\ infoFile = Gen5Info
    /\ stationDirs # {}
    /\ doneStations = {}

C9_InputRunLeavesDirsAlone ==
    [][ (pc # "idle" /\ args.input # None) =>
            /\ ~calls'.locator
            /\ ~calls'.extractor
            /\ temp' = temp
            /\ pc' # "idle" => userDir' = userDir
      ]_vars

\* a run with --input and --auto-detect has converted files and is done
C9_Witness ==
    /\ pc = "done"
    /\ args.input # None
    /\ args.auto_detect
    /\ calls.transcoder
    /\ userDir.exists

\* directories of the input root named as station i, and as its archive
NamedAsStation(i) ==
    { e \in InputEntries : e.isDir /\ Lower(e.name) = Lower(STATION_MAP[i].rpf_name) }

NamedAsArchive(i) ==
    { e \in InputEntries :
        e.isDir /\ Lower(e.name) = Lower(STATION_MAP[i].rpf_name \o DotRpf) }

\* C10: for each station at most one directory is processed, one named as
\* the station if there is one, else one named as its archive; the output
\* directories of a station are created only when such a directory exists.
C10_OneFolderPerStation ==
    [][ \A i \in Stations :
          /\ (processed'[i] # processed[i] /\ processed'[i] # {}) =>
                /\ processed[i] = {}
                /\ \E e \in InputEntries :
                      /\ processed'[i] = {e}
                      /\ IF NamedAsStation(i) # {}
                         THEN e \in NamedAsStation(i)
                         ELSE e \in NamedAsArchive(i)
          /\ (i \in stationDirs' /\ i \notin stationDirs) =>
                (NamedAsStation(i) \cup NamedAsArchive(i)) # {}
      ]_vars

\* both kinds of directory exist for a station and the one named as the
\* station was processed
C10_Witness ==
    /\ pc = "walk"
    /\ NamedAsStation(idx) # {}
    /\ NamedAsArchive(idx) # {}
    /\ processed[idx] # {}
    /\ processed[idx] \subseteq NamedAsStation(idx)
====
